---- MODULE Spec2Model ----
(***************************************************************************)
(* Railway/airport shortest-hop program.  src/main.c: the dynamic circular *)
(* buffer, the two-pass flat adjacency builder of main() and the levelled  *)
(* breadth-first search of solve(); cities are 1..n, the airport hub is    *)
(* node 0.  src/unnamed/part_000: the same search on per-node growable     *)
(* lists; cities are 0..n-1, the hub is node n.                            *)
(*                                                                         *)
(* Spec      main() of main.c on every small input, allocations succeeding *)
(* SpecAlloc main() of main.c on one large input, one allocation failing   *)
(* SpecDyn   main() of part_000 on every small input                       *)
(* SpecQ     the circular buffer alone, small initial capacities           *)
(* SpecBuf   the circular buffer alone, DEFAULT_CAPACITY slots             *)
(***************************************************************************)
EXTENDS Integers, Sequences, FiniteSets, TLC

\* ---------------------------------------------------------------- bounds
MaxN == 4          \* largest city count n read from the input
MaxM == 2          \* largest railway count m
MaxK == 2          \* largest airport count k
MaxCap == 3        \* largest capacity handed to make_circular_buffer in the buffer harness
MaxEnq == 6        \* enqueue calls per run of the buffer harness

\* ------------------------------------------------------ program constants
DEFAULT_CAPACITY == 128
IMPOSSIBLE == -1

\* Values the buffer harness enqueues: a level marker, the hub and a city.
QVals == {-2, 0, 1}

VARIABLES
  pc,          \* position of main(): "pass1a","pass1e","offsets","pass2e","pass2a","call","loop","done",
               \* "killed" after SIGSEGV; "add_airport","add_railway" in part_000; "harness" for the buffer alone
  n, m, k, s, t,   \* the five leading integers of the input (s, t: 0 until solve is called)
  i,           \* loop counter of the current loop of main()
  airports,    \* airports[0..k-1], as a sequence (filled in pass 1)
  edges,       \* edges[0..m-1], as a sequence of [from, to] (filled in pass 1)
  degrees,     \* graph.degrees
  start,       \* graph.start
  neighbours,  \* graph.neighbours
  queue,       \* solve: *queue
  visited,     \* solve: visited[]
  distance,    \* solve: distance
  result,      \* main: result (meaningful once pc = "done")
  ops,         \* number of circular_buffer_enqueue/dequeue calls made by solve so far
  failAt,      \* index of the allocation request of solve that fails (0: none)
  allocs,      \* allocation requests made by solve so far
  fault,       \* TRUE once circular_buffer_dequeue has raised SIGSEGV
  dyn,         \* the graph_t of the dynamic-list program (src/unnamed/part_000)
  qbuf,        \* buffer harness: the buffer under test
  qin,         \* buffer harness: every value enqueued so far, in call order
  qout         \* buffer harness: every value dequeued so far, in call order

inputVars == <<n, m, k, s, t>>
graphVars == <<degrees, start, neighbours>>
solveVars == <<queue, visited, distance, result, ops, failAt, allocs, fault>>
mainVars == <<pc, inputVars, i, airports, edges, graphVars, solveVars, dyn>>
qVars == <<qbuf, qin, qout>>
vars == <<mainVars, qVars, dyn>>

\* ------------------------------------------------------- circular buffer
\* The null pointer: no live buffer has capacity 0.
NULL == [capacity |-> 0, start |-> 0, size |-> 0, elements |-> <<>>]

\* calloc(count, sizeof(int)): count zeroed ints, indexed from 0.
Calloc(count) == [j \in 0..(count - 1) |-> 0]

\* make_circular_buffer; ok: both allocations succeed.
make_circular_buffer(capacity, ok) ==
  IF capacity = 0 THEN NULL
  ELSE IF ~ok THEN NULL
  ELSE [capacity |-> capacity, start |-> 0, size |-> 0, elements |-> Calloc(capacity)]

\* The growth branch with the second memcpy left out.
GrowMissingSecondCopy(buffer) ==
  [j \in 0..(2 * buffer.capacity - 1) |->
     IF j < buffer.capacity THEN buffer.elements[j] ELSE 0]

\* The growth branch copying the logical contents to index 0 on, head first.
GrowUnwrapped(buffer) ==
  [j \in 0..(2 * buffer.capacity - 1) |->
     IF j < buffer.size
     THEN buffer.elements[(buffer.start + j) % buffer.capacity]
     ELSE 0]

\* The two memcpy calls of the growth branch: the old array, twice in a row.
GrowElements(buffer) ==
  [j \in 0..(2 * buffer.capacity - 1) |->
     IF j < buffer.capacity THEN buffer.elements[j]
     ELSE buffer.elements[j - buffer.capacity]]

\* circular_buffer_enqueue; ok: the calloc of the growth branch succeeds.
\* Returns the buffer after the call and the return code.
circular_buffer_enqueue(buffer, element, ok) ==
  IF buffer.capacity = buffer.size /\ ~ok
  THEN [buffer |-> buffer, rc |-> 1]
  ELSE LET b1 == IF buffer.capacity = buffer.size
                 THEN [buffer EXCEPT !.elements = GrowElements(buffer),
                                     !.capacity = 2 * buffer.capacity]
                 ELSE buffer
           index == (b1.start + b1.size) % b1.capacity
       IN [buffer |-> [b1 EXCEPT !.elements[index] = element, !.size = @ + 1],
           rc |-> 0]

\* circular_buffer_dequeue moving start on without the modulo.
dequeue_no_wrap(buffer) ==
  LET index == buffer.start % buffer.capacity
  IN [item |-> buffer.elements[index],
      buffer |-> [buffer EXCEPT !.size = @ - 1, !.start = buffer.start + 1]]

\* circular_buffer_dequeue on a non-empty buffer (on an empty one the call
\* raises SIGSEGV, see DequeueFaults).
circular_buffer_dequeue(buffer) ==
  LET index == buffer.start % buffer.capacity
  IN [item |-> buffer.elements[index],
      buffer |-> [buffer EXCEPT !.size = @ - 1,
                                !.start = (buffer.start + 1) % buffer.capacity]]

\* The guard of circular_buffer_dequeue that raises SIGSEGV.
DequeueFaults(buffer) == buffer.size = 0

\* ------------------------------------------------ graph builder of main()
\* The global graph_t as a value.
Graph(deg, st, nb, size) == [size |-> size, degrees |-> deg, start |-> st, neighbours |-> nb]

\* Pass 1, one airport, the hub's own count left out.
CountAirportNoHub(deg, city) == [deg EXCEPT ![city] = @ + 1]

\* Pass 1, one airport: graph.degrees[0]++; graph.degrees[city]++.
CountAirport(deg, city) == [deg EXCEPT ![0] = @ + 1, ![city] = @ + 1]

\* Pass 1, one railway, counted at its first end only.
CountEdgeFromOnly(deg, a, b) == [deg EXCEPT ![a] = @ + 1]

\* Pass 1, one railway: graph.degrees[a]++; graph.degrees[b]++.
CountEdge(deg, a, b) == [deg EXCEPT ![a] = @ + 1, ![b] = @ + 1]

\* deg[lo] + ... + deg[hi], summed by halves to keep the evaluation shallow.
RECURSIVE SumDegrees(_, _, _)
SumDegrees(deg, lo, hi) ==
  IF lo > hi THEN 0
  ELSE IF lo = hi THEN deg[lo]
  ELSE SumDegrees(deg, lo, (lo + hi) \div 2) + SumDegrees(deg, (lo + hi) \div 2 + 1, hi)

\* The running variable start of the offsets loop when it reaches index c:
\* start += graph.degrees[i] was run for every i below c.
OffsetOf(deg, c) == SumDegrees(deg, 0, c - 1)

\* The offsets loop, for (i = 0; i < n + 2; i++): graph.start[i] = start.
Offsets(deg) == [c \in DOMAIN deg |-> OffsetOf(deg, c)]

\* Pass 2, one railway, written at one end only.
InsertEdgeOneWay(g, edge) ==
  LET from_index == g.start[edge.from] + g.degrees[edge.from]
  IN [g EXCEPT !.neighbours[from_index] = edge.to,
               !.degrees[edge.from] = @ + 1,
               !.degrees[edge.to] = @ + 1]

\* Pass 2, one railway: both indices are computed before either write.
InsertEdge(g, edge) ==
  LET from_index == g.start[edge.from] + g.degrees[edge.from]
      to_index == g.start[edge.to] + g.degrees[edge.to]
  IN [g EXCEPT !.neighbours[from_index] = edge.to,
               !.neighbours[to_index] = edge.from,
               !.degrees[edge.from] = @ + 1,
               !.degrees[edge.to] = @ + 1]

\* Pass 2, one airport, with the hub's own entry left out.
InsertAirportNoHubEntry(g, airport) ==
  LET to_index == g.start[airport] + g.degrees[airport]
  IN [g EXCEPT !.neighbours[to_index] = 0,
               !.degrees[0] = @ + 1,
               !.degrees[airport] = @ + 1]

\* Pass 2, one airport: the link between the hub (node 0) and the airport.
InsertAirport(g, airport) ==
  LET from_index == g.start[0] + g.degrees[0]
      to_index == g.start[airport] + g.degrees[airport]
  IN [g EXCEPT !.neighbours[from_index] = airport,
               !.neighbours[to_index] = 0,
               !.degrees[0] = @ + 1,
               !.degrees[airport] = @ + 1]

\* ------------------------- graph of the dynamic-list program (part_000)
\* make_graph: every node starts with DEFAULT_CAPACITY zeroed slots.  An array
\* is kept up to its last written slot; the slots after it hold what calloc
\* and realloc left there and are never read.
make_graph(size) ==
  [size |-> size,
   capacity |-> [c \in 0..(size - 1) |-> DEFAULT_CAPACITY],
   degree |-> [c \in 0..(size - 1) |-> 0],
   neighbours |-> [c \in 0..(size - 1) |-> <<>>]]

\* The flat program has no such graph.
NoGraph == make_graph(0)

\* graph_ensure_capacity: the slots of city are doubled when all are used.
graph_ensure_capacity(graph, city) ==
  IF graph.capacity[city] = graph.degree[city]
  THEN [graph EXCEPT !.capacity[city] = 2 * @]
  ELSE graph

\* array[index] = value; slots skipped over keep the 0 of calloc.
StoreAt(array, index, value) ==
  LET top == IF Len(array) > index + 1 THEN Len(array) ELSE index + 1
  IN [j \in 1..top |-> IF j = index + 1 THEN value
                       ELSE IF j <= Len(array) THEN array[j] ELSE 0]

\* graph_add_railway.
graph_add_railway(graph, from, until) ==
  LET g1 == graph_ensure_capacity(graph_ensure_capacity(graph, from), until)
      g2 == [g1 EXCEPT !.neighbours[from] = StoreAt(@, g1.degree[from], until)]
      g3 == [g2 EXCEPT !.neighbours[until] = StoreAt(@, g2.degree[until], from)]
  IN [g3 EXCEPT !.degree[from] = @ + 1, !.degree[until] = @ + 1]

\* The airport linked with node 0, the hub of the flat program.
graph_add_airport_hub_zero(graph, city) == graph_add_railway(graph, city, 0)

\* graph_add_airport: the hub is the last node, size - 1.
graph_add_airport(graph, city) == graph_add_railway(graph, city, graph.size - 1)

\* ------------------------------------------------------------------ solve
\* The locals of one solve call.  returned/ret: the return statement taken.
\* ops counts the queue calls, allocs the allocation requests; request number
\* failAt fails (0: none does).

\* One circular_buffer_enqueue call of solve; its return code is ignored.
Enq(f, element) ==
  LET full == f.queue.capacity = f.queue.size
      r == circular_buffer_enqueue(f.queue, element, f.allocs + 1 # f.failAt)
  IN [f EXCEPT !.queue = r.buffer,
               !.ops = @ + 1,
               !.allocs = IF full THEN @ + 1 ELSE @]

\* Lines 128-134 with distance starting at 0.
solve_enter_from_zero(g, from, fail) ==
  LET q == make_circular_buffer(DEFAULT_CAPACITY, fail \notin {1, 2})
      f0 == [queue |-> q, visited |-> [c \in 0..(g.size - 1) |-> FALSE],
             distance |-> 0, returned |-> FALSE, ret |-> 0,
             ops |-> 0, allocs |-> 2, failAt |-> fail, fault |-> FALSE]
  IN IF q = NULL THEN [f0 EXCEPT !.returned = TRUE, !.ret = IMPOSSIBLE]
     ELSE Enq(f0, from)

\* Lines 128-134: the queue, distance, visited, and the enqueue of from.
solve_enter(g, from, fail) ==
  LET q == make_circular_buffer(DEFAULT_CAPACITY, fail \notin {1, 2})
      f0 == [queue |-> q, visited |-> [c \in 0..(g.size - 1) |-> FALSE],
             distance |-> 1, returned |-> FALSE, ret |-> 0,
             ops |-> 0, allocs |-> 2, failAt |-> fail, fault |-> FALSE]
  IN IF q = NULL THEN [f0 EXCEPT !.returned = TRUE, !.ret = IMPOSSIBLE, !.distance = 0]
     ELSE Enq(f0, from)

\* The marker without the increment.
MarkerSameLevel(dist) == -dist

\* The marker a city enqueues before its neighbours (line 142).
MarkerFor(dist) == -dist - 1

\* Line 147 left out: the neighbour is enqueued but never marked.
VisitNoMark(f, city) == IF ~f.visited[city] THEN Enq(f, city) ELSE f

\* Lines 145-148: enqueue a neighbour not yet visited, and mark it.
Visit(f, city) ==
  IF ~f.visited[city]
  THEN [Enq(f, city) EXCEPT !.visited[city] = TRUE]
  ELSE f

\* Lines 143-149: the for loop over the neighbours of head, from index j on.
RECURSIVE solve_neighbours(_, _, _, _)
solve_neighbours(f, g, head, j) ==
  IF j >= g.degrees[head] THEN f
  ELSE solve_neighbours(Visit(f, g.neighbours[g.start[head] + j]), g, head, j + 1)

\* Lines 142-149 with the marker enqueued after the neighbours.
solve_expand_marker_last(f, g, head) ==
  LET f2 == solve_neighbours(f, g, head, 0)
  IN IF g.degrees[head] > 0 THEN Enq(f2, MarkerFor(f.distance)) ELSE f2

\* Lines 142-149: the marker for the next level, then the neighbours of head.
solve_expand(f, g, head) ==
  solve_neighbours(
    IF g.degrees[head] > 0 THEN Enq(f, MarkerFor(f.distance)) ELSE f,
    g, head, 0)

\* Line 140 returning distance as it is.
FoundNoCompensation(dist) == dist

\* Line 140: return distance - 1.
FoundResult(dist) == dist - 1

\* The loop entered whatever the queue holds.
LoopConditionAlways(f) == TRUE

\* Line 135: while (queue->size > 0).
LoopCondition(f) == f.queue.size > 0

\* Lines 135-152: one turn of the while loop, or the return after it.  A
\* dequeue that raises SIGSEGV ends the process: control leaves solve with
\* fault set and nothing is returned.
solve_iter(f, g, until) ==
  IF ~LoopCondition(f) THEN [f EXCEPT !.returned = TRUE, !.ret = IMPOSSIBLE]
  ELSE IF DequeueFaults(f.queue) THEN [f EXCEPT !.returned = TRUE, !.fault = TRUE]
  ELSE LET d == circular_buffer_dequeue(f.queue)
           head == d.item
           f1 == [f EXCEPT !.queue = d.buffer, !.ops = @ + 1]
       IN IF head < 0 THEN [f1 EXCEPT !.distance = -head]
          ELSE IF head = until
          THEN [f1 EXCEPT !.returned = TRUE, !.ret = FoundResult(f1.distance)]
          ELSE solve_expand(f1, g, head)

\* The while loop run to its return.
RECURSIVE solve_loop(_, _, _)
solve_loop(f, g, until) ==
  IF f.returned THEN f ELSE solve_loop(solve_iter(f, g, until), g, until)

\* int solve(int from, int until), every allocation succeeding.
solve(g, from, until) == solve_loop(solve_enter(g, from, 0), g, until).ret

\* ------------------------------------------------------------------ main
G == Graph(degrees, start, neighbours, n + 1)

Frame == [queue |-> queue, visited |-> visited, distance |-> distance,
          returned |-> FALSE, ret |-> 0, ops |-> ops, allocs |-> allocs,
          failAt |-> failAt, fault |-> fault]

\* The statements of main() in order, and how many turns each loop takes.
Phases == <<"pass1a", "pass1e", "offsets", "pass2e", "pass2a", "call">>

Turns(ph, kk, mm) ==
  CASE Phases[ph] \in {"pass1a", "pass2a"} -> kk
    [] Phases[ph] \in {"pass1e", "pass2e"} -> mm
    [] OTHER -> 1

\* Control after a turn: a for loop whose condition is false falls through.
RECURSIVE Settle(_, _, _, _)
Settle(ph, idx, kk, mm) ==
  IF idx < Turns(ph, kk, mm) THEN <<Phases[ph], idx>>
  ELSE Settle(ph + 1, 0, kk, mm)

PhaseOf(p) == CHOOSE ph \in DOMAIN Phases : Phases[ph] = p

Step == /\ pc' = Settle(PhaseOf(pc), i + 1, k, m)[1]
        /\ i' = Settle(PhaseOf(pc), i + 1, k, m)[2]

\* Bound on the queue calls of one solve call the model follows.
OpsCap == 8 * (n + 2)

HarnessIdle == qbuf = NULL /\ qin = <<>> /\ qout = <<>>

\* The inputs followed.  The airport list names k distinct cities and a railway
\* joins two distinct cities; lists that differ only in the order of their
\* entries or in the orientation of a railway are followed once, in increasing
\* order.  The same railway may be listed more than once.
AirportInputs ==
  {city \in 1..n : /\ (i > 0 => city > airports[i])
                   /\ city <= n - (k - i - 1)}

EdgeInputs ==
  {e \in [from : 1..n, to : 1..n] :
     /\ e.from < e.to
     /\ (i > 0 => \/ edges[i].from < e.from
                  \/ (edges[i].from = e.from /\ edges[i].to <= e.to))}

\* main() after n, m and k were read; graph is a zeroed global.
Init ==
  /\ n \in 1..MaxN /\ m \in 0..MaxM /\ k \in 0..MaxK
  /\ (n = 1 => m = 0) /\ k <= n
  /\ s = 0 /\ t = 0
  /\ pc = Settle(1, 0, k, m)[1]
  /\ i = 0
  /\ airports = <<>> /\ edges = <<>>
  /\ degrees = [c \in 0..(n + 1) |-> 0]
  /\ start = [c \in 0..(n + 1) |-> 0]
  /\ neighbours = [j \in 0..(2 * (m + k)) |-> 0]
  /\ queue = NULL
  /\ visited = [c \in 0..n |-> FALSE]
  /\ distance = 0 /\ result = 0 /\ ops = 0 /\ allocs = 0
  /\ failAt = 0 /\ fault = FALSE
  /\ dyn = NoGraph
  /\ HarnessIdle

\* Lines 209-214: one airport is read and counted.
Pass1Airport ==
  /\ pc = "pass1a"
  /\ \E city \in AirportInputs :
       /\ airports' = Append(airports, city)
       /\ degrees' = CountAirport(degrees, city)
  /\ Step
  /\ UNCHANGED <<inputVars, edges, start, neighbours, solveVars, qVars, dyn>>

\* Lines 215-222: one railway is read and counted.
Pass1Edge ==
  /\ pc = "pass1e"
  /\ \E e \in EdgeInputs :
       /\ edges' = Append(edges, e)
       /\ degrees' = CountEdge(degrees, e.from, e.to)
  /\ Step
  /\ UNCHANGED <<inputVars, airports, start, neighbours, solveVars, qVars, dyn>>

\* Lines 225-230: the offsets, and the degrees reset to 0.
ComputeOffsets ==
  /\ pc = "offsets"
  /\ start' = Offsets(degrees)
  /\ degrees' = [c \in DOMAIN degrees |-> 0]
  /\ Step
  /\ UNCHANGED <<inputVars, airports, edges, neighbours, solveVars, qVars, dyn>>

\* Lines 233-241: railway i is written into both slices.
Pass2Edge ==
  /\ pc = "pass2e"
  /\ LET g == InsertEdge(G, edges[i + 1])
     IN degrees' = g.degrees /\ neighbours' = g.neighbours
  /\ Step
  /\ UNCHANGED <<inputVars, airports, edges, start, solveVars, qVars, dyn>>

\* Lines 243-251: airport i is linked with the hub.
Pass2Airport ==
  /\ pc = "pass2a"
  /\ LET g == InsertAirport(G, airports[i + 1])
     IN degrees' = g.degrees /\ neighbours' = g.neighbours
  /\ Step
  /\ UNCHANGED <<inputVars, airports, edges, start, solveVars, qVars, dyn>>

\* The locals of solve become those of frame f; a return ends main(), and
\* SIGSEGV kills the process before anything is printed.
Resume(f) ==
  /\ queue' = f.queue /\ visited' = f.visited /\ distance' = f.distance
  /\ ops' = f.ops /\ allocs' = f.allocs /\ fault' = f.fault
  /\ result' = IF f.returned /\ ~f.fault THEN f.ret ELSE result
  /\ pc' = IF f.fault THEN "killed" ELSE IF f.returned THEN "done" ELSE "loop"
  /\ UNCHANGED <<n, m, k, i, airports, edges, graphVars, failAt, qVars, dyn>>

\* Line 253 and lines 128-134: solve(s, t) is entered.  s and t were read at
\* lines 202-203 and are looked at here for the first time: any two cities.
SolveCall ==
  /\ pc = "call"
  /\ s' \in 1..n /\ t' \in 1..n
  /\ \E f \in {solve_enter(G, s', failAt)} : Resume(f)

QueueHead == circular_buffer_dequeue(queue).item

\* A turn of the while loop that dequeues a level marker.
SolveMarker ==
  /\ pc = "loop" /\ queue.size > 0 /\ ops < OpsCap
  /\ QueueHead < 0
  /\ \E f \in {solve_iter(Frame, G, t)} : Resume(f)
  /\ UNCHANGED <<s, t>>

\* A turn of the while loop that dequeues the destination.
SolveFound ==
  /\ pc = "loop" /\ queue.size > 0 /\ ops < OpsCap
  /\ QueueHead >= 0 /\ QueueHead = t
  /\ \E f \in {solve_iter(Frame, G, t)} : Resume(f)
  /\ UNCHANGED <<s, t>>

\* A turn of the while loop that dequeues another city.
SolveExpand ==
  /\ pc = "loop" /\ queue.size > 0 /\ ops < OpsCap
  /\ QueueHead >= 0 /\ QueueHead # t
  /\ \E f \in {solve_iter(Frame, G, t)} : Resume(f)
  /\ UNCHANGED <<s, t>>

\* The loop condition fails: return IMPOSSIBLE.
SolveExhausted ==
  /\ pc = "loop" /\ queue.size = 0
  /\ \E f \in {solve_iter(Frame, G, t)} : Resume(f)
  /\ UNCHANGED <<s, t>>

Next ==
  \/ Pass1Airport
  \/ Pass1Edge
  \/ ComputeOffsets
  \/ Pass2Edge
  \/ Pass2Airport
  \/ SolveCall
  \/ SolveMarker
  \/ SolveFound
  \/ SolveExpand
  \/ SolveExhausted

Spec == Init /\ [][Next]_vars

\* ------------------------------------------- solve under allocation failure
\* The queue of solve starts with DEFAULT_CAPACITY slots, so the growth branch
\* of an enqueue runs only on an input whose search holds more entries than
\* that at once.  The input followed here is one: the cities 1..TreeN joined
\* as a complete binary tree, city c by a railway to city c \div 2, and one
\* more city, TreeN + 1, that no railway reaches.
TreeN == 2 * DEFAULT_CAPACITY - 1

TreeEdge(j) == [from |-> (j + 1) \div 2, to |-> j + 1]

\* Largest index of the allocation request of solve that is made to fail.
MaxFail == 3

\* main() after n, m and k were read from the tree input; allocation request
\* failAt of solve fails.
AllocInit ==
  /\ n = TreeN + 1 /\ m = TreeN - 1 /\ k = 0
  /\ s = 0 /\ t = 0
  /\ pc = "pass1e" /\ i = 0
  /\ airports = <<>> /\ edges = <<>>
  /\ degrees = [c \in 0..(TreeN + 2) |-> 0]
  /\ start = [c \in 0..(TreeN + 2) |-> 0]
  /\ neighbours = [j \in 0..(2 * (TreeN - 1)) |-> 0]
  /\ queue = NULL
  /\ visited = [c \in 0..(TreeN + 1) |-> FALSE]
  /\ distance = 0 /\ result = 0 /\ ops = 0 /\ allocs = 0
  /\ failAt \in 0..MaxFail /\ fault = FALSE
  /\ dyn = NoGraph
  /\ HarnessIdle

\* Lines 215-222 on the tree input: railway i is read and counted.
AllocPass1Edge ==
  /\ pc = "pass1e"
  /\ \E e \in {TreeEdge(i + 1)} :
       /\ edges' = Append(edges, e)
       /\ degrees' = CountEdge(degrees, e.from, e.to)
  /\ Step
  /\ UNCHANGED <<inputVars, airports, start, neighbours, solveVars, qVars, dyn>>

\* Line 253 on the tree: from the root or its first child, to the last leaf
\* or to the city outside the tree.
AllocCall ==
  /\ pc = "call"
  /\ s' \in {1, 2} /\ t' \in {TreeN, TreeN + 1}
  /\ \E f \in {solve_enter(G, s', failAt)} : Resume(f)

AllocNext ==
  \/ AllocPass1Edge
  \/ ComputeOffsets
  \/ Pass2Edge
  \/ AllocCall
  \/ SolveMarker
  \/ SolveFound
  \/ SolveExpand
  \/ SolveExhausted

SpecAlloc == AllocInit /\ [][AllocNext]_vars

\* ----------------------------------- the dynamic-list program (part_000)
\* Lines 178-184 of part_000: the for loop over graph->neighbours[head].
RECURSIVE dyn_solve_neighbours(_, _, _, _)
dyn_solve_neighbours(f, graph, head, j) ==
  IF j >= graph.degree[head] THEN f
  ELSE dyn_solve_neighbours(Visit(f, graph.neighbours[head][j + 1]), graph, head, j + 1)

\* Lines 177-184 of part_000.
dyn_solve_expand(f, graph, head) ==
  dyn_solve_neighbours(
    IF graph.degree[head] > 0 THEN Enq(f, MarkerFor(f.distance)) ELSE f,
    graph, head, 0)

\* Lines 170-187 of part_000: one turn of the while loop, or the return.
dyn_solve_iter(f, graph, until) ==
  IF ~LoopCondition(f) THEN [f EXCEPT !.returned = TRUE, !.ret = IMPOSSIBLE]
  ELSE IF DequeueFaults(f.queue) THEN [f EXCEPT !.returned = TRUE, !.fault = TRUE]
  ELSE LET d == circular_buffer_dequeue(f.queue)
           head == d.item
           f1 == [f EXCEPT !.queue = d.buffer, !.ops = @ + 1]
       IN IF head < 0 THEN [f1 EXCEPT !.distance = -head]
          ELSE IF head = until
          THEN [f1 EXCEPT !.returned = TRUE, !.ret = FoundResult(f1.distance)]
          ELSE dyn_solve_expand(f1, graph, head)

\* Control of part_000's main() after a turn of one of its two loops.
RECURSIVE DynSettle(_, _, _, _)
DynSettle(p, idx, kk, mm) ==
  IF p = "add_airport"
  THEN IF idx < kk THEN <<p, idx>> ELSE DynSettle("add_railway", 0, kk, mm)
  ELSE IF p = "add_railway" /\ idx < mm THEN <<p, idx>>
  ELSE <<"call", 0>>

DynStep == /\ pc' = DynSettle(pc, i + 1, k, m)[1]
           /\ i' = DynSettle(pc, i + 1, k, m)[2]

\* part_000's main() after n, m and k were read and make_graph(n + 1) ran.
\* airports and edges keep the input read so far.
DynInit ==
  /\ n \in 1..MaxN /\ m \in 0..MaxM /\ k \in 0..MaxK
  /\ (n = 1 => m = 0) /\ k <= n
  /\ s = 0 /\ t = 0
  /\ pc = DynSettle("add_airport", 0, k, m)[1]
  /\ i = 0
  /\ airports = <<>> /\ edges = <<>>
  /\ degrees = <<>> /\ start = <<>> /\ neighbours = <<>>
  /\ queue = NULL
  /\ visited = [c \in 0..n |-> FALSE]
  /\ distance = 0 /\ result = 0 /\ ops = 0 /\ allocs = 0
  /\ failAt = 0 /\ fault = FALSE
  /\ dyn = make_graph(n + 1)
  /\ HarnessIdle

\* Lines 241-244 of part_000: one airport is read and linked with the hub.
DynAirport ==
  /\ pc = "add_airport"
  /\ \E city \in AirportInputs :
       /\ airports' = Append(airports, city)
       /\ dyn' = graph_add_airport(dyn, city - 1)
  /\ DynStep
  /\ UNCHANGED <<inputVars, edges, graphVars, solveVars, qVars>>

\* Lines 245-249 of part_000: one railway is read and added.
DynRailway ==
  /\ pc = "add_railway"
  /\ \E e \in EdgeInputs :
       /\ edges' = Append(edges, e)
       /\ dyn' = graph_add_railway(dyn, e.from - 1, e.to - 1)
  /\ DynStep
  /\ UNCHANGED <<inputVars, airports, graphVars, solveVars, qVars>>

\* Line 251 and lines 163-169 of part_000: solve(graph, s - 1, t - 1).
DynCall ==
  /\ pc = "call"
  /\ s' \in 1..n /\ t' \in 1..n
  /\ \E f \in {solve_enter(dyn, s' - 1, failAt)} : Resume(f)

DynMarker ==
  /\ pc = "loop" /\ queue.size > 0 /\ ops < OpsCap
  /\ QueueHead < 0
  /\ \E f \in {dyn_solve_iter(Frame, dyn, t - 1)} : Resume(f)
  /\ UNCHANGED <<s, t>>

DynFound ==
  /\ pc = "loop" /\ queue.size > 0 /\ ops < OpsCap
  /\ QueueHead >= 0 /\ QueueHead = t - 1
  /\ \E f \in {dyn_solve_iter(Frame, dyn, t - 1)} : Resume(f)
  /\ UNCHANGED <<s, t>>

DynExpand ==
  /\ pc = "loop" /\ queue.size > 0 /\ ops < OpsCap
  /\ QueueHead >= 0 /\ QueueHead # t - 1
  /\ \E f \in {dyn_solve_iter(Frame, dyn, t - 1)} : Resume(f)
  /\ UNCHANGED <<s, t>>

DynExhausted ==
  /\ pc = "loop" /\ queue.size = 0
  /\ \E f \in {dyn_solve_iter(Frame, dyn, t - 1)} : Resume(f)
  /\ UNCHANGED <<s, t>>

DynNext ==
  \/ DynAirport
  \/ DynRailway
  \/ DynCall
  \/ DynMarker
  \/ DynFound
  \/ DynExpand
  \/ DynExhausted

SpecDyn == DynInit /\ [][DynNext]_vars

\* --------------------------------------------------------- buffer harness
\* Any calls of circular_buffer_enqueue and circular_buffer_dequeue on a
\* buffer made by make_circular_buffer, dequeue only on a non-empty buffer.
QInit ==
  /\ pc = "harness"
  /\ n = 0 /\ m = 0 /\ k = 0 /\ s = 0 /\ t = 0 /\ i = 0
  /\ airports = <<>> /\ edges = <<>>
  /\ degrees = <<>> /\ start = <<>> /\ neighbours = <<>>
  /\ queue = NULL /\ visited = <<>>
  /\ distance = 0 /\ result = 0 /\ ops = 0 /\ allocs = 0 /\ failAt = 0
  /\ fault = FALSE /\ dyn = NoGraph
  /\ \E capacity \in 1..MaxCap : qbuf = make_circular_buffer(capacity, TRUE)
  /\ qin = <<>> /\ qout = <<>>

QEnqueue ==
  /\ pc = "harness"
  /\ Len(qin) < MaxEnq
  /\ \E element \in QVals :
       /\ qbuf' = circular_buffer_enqueue(qbuf, element, TRUE).buffer
       /\ qin' = Append(qin, element)
  /\ UNCHANGED <<mainVars, qout>>

QDequeue ==
  /\ pc = "harness"
  /\ ~DequeueFaults(qbuf)
  /\ qbuf' = circular_buffer_dequeue(qbuf).buffer
  /\ qout' = Append(qout, circular_buffer_dequeue(qbuf).item)
  /\ UNCHANGED <<mainVars, qin>>

QNext == QEnqueue \/ QDequeue

SpecQ == QInit /\ [][QNext]_vars

\* ------------------------------------------- buffer harness, 128 slots
\* The same calls on a buffer of DEFAULT_CAPACITY slots, as solve makes it.
\* The value enqueued is the number of the call.  A run makes up to MaxOver
\* enqueues more than the buffer first holds, with any dequeues between
\* them, or up to MaxOver more than it holds once doubled, with up to MaxOver
\* dequeues.
MaxOver == 3

ShortRun == DEFAULT_CAPACITY + MaxOver

LongRun == 2 * DEFAULT_CAPACITY + MaxOver

BufInit ==
  /\ pc = "harness"
  /\ n = 0 /\ m = 0 /\ k = 0 /\ s = 0 /\ t = 0 /\ i = 0
  /\ airports = <<>> /\ edges = <<>>
  /\ degrees = <<>> /\ start = <<>> /\ neighbours = <<>>
  /\ queue = NULL /\ visited = <<>>
  /\ distance = 0 /\ result = 0 /\ ops = 0 /\ allocs = 0 /\ failAt = 0
  /\ fault = FALSE /\ dyn = NoGraph
  /\ qbuf = make_circular_buffer(DEFAULT_CAPACITY, TRUE)
  /\ qin = <<>> /\ qout = <<>>

BufEnqueue ==
  /\ pc = "harness"
  /\ \/ Len(qin) < ShortRun
     \/ Len(qin) < LongRun /\ Len(qout) <= MaxOver
  /\ \E element \in {Len(qin) + 1} :
       /\ qbuf' = circular_buffer_enqueue(qbuf, element, TRUE).buffer
       /\ qin' = Append(qin, element)
  /\ UNCHANGED <<mainVars, qout>>

BufDequeue ==
  /\ pc = "harness"
  /\ ~DequeueFaults(qbuf)
  /\ Len(qin) <= ShortRun \/ Len(qout) < MaxOver
  /\ qbuf' = circular_buffer_dequeue(qbuf).buffer
  /\ qout' = Append(qout, circular_buffer_dequeue(qbuf).item)
  /\ UNCHANGED <<mainVars, qin>>

BufNext ==
  \/ BufEnqueue
  \/ BufDequeue

SpecBuf == BufInit /\ [][BufNext]_vars

\* ------------------------------------------------- reference definitions
\* The augmented graph as the input describes it: the railways, and one link
\* between the hub (node 0) and every airport.
Range(seq) == {seq[j] : j \in DOMAIN seq}

RailPairs == UNION {{<<e.from, e.to>>, <<e.to, e.from>>} : e \in Range(edges)}

HubPairs == UNION {{<<0, a>>, <<a, 0>>} : a \in Range(airports)}

AugPairs == RailPairs \cup HubPairs

\* The nodes at most one edge of E away from a node of S.
Ball(E, S) == S \cup {p[2] : p \in {q \in E : q[1] \in S}}

\* The number of edges of a shortest path of E from a node of S to b, d edges
\* having been walked already; IMPOSSIBLE when E has no such path.
RECURSIVE Walk(_, _, _, _)
Walk(E, S, b, d) ==
  IF b \in S THEN d
  ELSE LET T == Ball(E, S)
       IN IF T = S THEN IMPOSSIBLE ELSE Walk(E, T, b, d + 1)

PathLen(E, a, b) == Walk(E, {a}, b, 0)

Connected(E, a, b) == PathLen(E, a, b) # IMPOSSIBLE

SetMin(S) == CHOOSE x \in S : \A y \in S : x <= y

Done == pc = "done"

\* ----------------------------------------------------------------- claims

\* C1: when s and t are connected in the augmented graph (railways plus the
\* hub links), solve returns the number of edges of a shortest s-t path of it.
C1_ShortestPath ==
  Done => \A len \in {PathLen(AugPairs, s, t)} :
            len # IMPOSSIBLE => result = len

\* C1 witness: a railway chain 1-2-3 without airports, travelled end to end.
C1_Witness ==
  /\ Done /\ k = 0 /\ m = 2 /\ s = 1 /\ t = 3
  /\ ~(<<1, 3>> \in RailPairs) /\ Connected(AugPairs, s, t)
  /\ result = 2

\* C2: solve returns IMPOSSIBLE exactly when t is not reachable from s in the
\* augmented graph, and then the queue has run empty.
C2_ImpossibleIffUnreachable ==
  Done => /\ (result = IMPOSSIBLE) <=> ~Connected(AugPairs, s, t)
          /\ (result = IMPOSSIBLE) => queue.size = 0

\* C2 witness: n = 2, no railway, no airport, from 1 to 2.
C2_Witness ==
  Done /\ n = 2 /\ m = 0 /\ k = 0 /\ s = 1 /\ t = 2 /\ result = IMPOSSIBLE

\* C3: solve(x, x) is 0 for every city x, with or without neighbours.
C3_SelfDistanceZero == (Done /\ s = t) => result = 0

\* C3 witness: a city without railway or airport, in a graph where another
\* city has both, travels to itself.
C3_Witness ==
  /\ Done /\ s = t /\ result = 0
  /\ degrees[s] = 0
  /\ \E c \in 1..n : c \in Range(airports) /\ degrees[c] > 1

\* C4: solve(a, b) and solve(b, a) agree: the result of the run from s to t
\* is what solve yields on the same graph from t to s.
C4_Symmetric == Done => result = solve(G, t, s)

\* C4 witness: a run over a path that is not a palindrome: a railway, then the hub.
C4_Witness ==
  /\ Done /\ s # t /\ result = 3
  /\ s \notin Range(airports) /\ t \in Range(airports)

\* C5: between two airports solve returns at most 2, and exactly 2 when they
\* are distinct and no railway joins them directly.
C5_AirportPair ==
  (Done /\ s \in Range(airports) /\ t \in Range(airports))
    => /\ result # IMPOSSIBLE /\ result <= 2
       /\ (s # t /\ <<s, t>> \notin RailPairs) => result = 2

\* C5 witness: two airports that railways join as well, but not directly.
C5_Witness ==
  /\ Done /\ s \in Range(airports) /\ t \in Range(airports) /\ s # t
  /\ <<s, t>> \notin RailPairs /\ Connected(RailPairs, s, t)
  /\ result = 2

\* Every shortest path from s to t goes through the hub.
ViaHub ==
  \E aug \in {PathLen(AugPairs, s, t)}, rail \in {PathLen(RailPairs, s, t)} :
    aug # IMPOSSIBLE /\ (rail # IMPOSSIBLE => rail > aug)

\* C6 as stated: for a path through the hub the result is one less than the
\* number of edges of the path in the augmented graph.
C6_HubHopSubtracted ==
  (Done /\ ViaHub) => result = PathLen(AugPairs, s, t) - 1

\* The fewest railways between city c and an airport.
RailsToAirport(c) ==
  SetMin({PathLen(RailPairs, c, a) : a \in Range(airports)} \ {IMPOSSIBLE})

\* C6 amended: for a path through the hub both hub links count: the result
\* is the railways from s to an airport, plus 2, plus the railways from an
\* airport to t.
C6_HubHopsCounted ==
  (Done /\ ViaHub) => result = RailsToAirport(s) + 2 + RailsToAirport(t)

\* C6 witness: n = 3, no railway, airports 1 and 2, from 1 to 2: result 2.
C6_Witness ==
  /\ Done /\ n = 3 /\ m = 0 /\ airports = <<1, 2>> /\ s = 1 /\ t = 2
  /\ ViaHub /\ result = 2

\* C7 as stated: neither s nor t an airport and no chain of railways between
\* them gives IMPOSSIBLE.
C7_NoRailwayChain ==
  (Done /\ s \notin Range(airports) /\ t \notin Range(airports)
        /\ ~Connected(RailPairs, s, t))
    => result = IMPOSSIBLE

\* No chain of railways leads from city c to an airport.
NoAirportByRail(c) == \A a \in Range(airports) : ~Connected(RailPairs, c, a)

\* C7 amended: ... and, besides, no chain of railways leads from s to an
\* airport or none leads from t to an airport.
C7_NoRailwayChainNoAirport ==
  (Done /\ s \notin Range(airports) /\ t \notin Range(airports)
        /\ ~Connected(RailPairs, s, t)
        /\ (NoAirportByRail(s) \/ NoAirportByRail(t)))
    => result = IMPOSSIBLE

\* C7 witness: t has a railway to an airport, another city is an airport too,
\* s has a railway but none that leads to an airport.
C7_Witness ==
  /\ Done /\ k = 2 /\ m = 2
  /\ s \notin Range(airports) /\ t \notin Range(airports)
  /\ ~Connected(RailPairs, s, t)
  /\ NoAirportByRail(s) /\ ~NoAirportByRail(t)
  /\ result = IMPOSSIBLE

\* solve on the graph main() has built, for every pair of cities.
SolveTable == [a \in 1..n, b \in 1..n |-> solve(G, a, b)]

\* C8: on the graph main() has built, for all cities a, b, c with solve(a, c)
\* and solve(c, b) both distances, solve(a, b) is a distance and at most
\* their sum.
C8_Triangle ==
  pc = "call" =>
    \A D \in {SolveTable} :
      \A a \in 1..n, b \in 1..n, c \in 1..n :
        (D[a, c] # IMPOSSIBLE /\ D[c, b] # IMPOSSIBLE)
          => (D[a, b] # IMPOSSIBLE /\ D[a, b] <= D[a, c] + D[c, b])

\* C8 witness: a built graph with a direct railway and a strictly longer
\* detour over a third city.
C8_Witness ==
  /\ pc = "call"
  /\ \E D \in {SolveTable} :
       \E a \in 1..n, b \in 1..n, c \in 1..n :
         D[a, b] = 1 /\ D[a, c] = 2 /\ D[c, b] = 3

\* The logical contents of a buffer, head first.
Contents(buffer) ==
  [j \in 1..buffer.size |-> buffer.elements[(buffer.start + j - 1) % buffer.capacity]]

\* C9: the values dequeued are the values enqueued, in enqueue order, and
\* the values still to come are the rest of them, in order.
C9_Fifo ==
  pc = "harness" =>
    /\ Len(qout) <= Len(qin)
    /\ qout = SubSeq(qin, 1, Len(qout))
    /\ Contents(qbuf) = SubSeq(qin, Len(qout) + 1, Len(qin))

\* C9 witness: four values all dequeued in order, the third of them written
\* at index 0 of a full capacity-2 array whose head was at index 1, so that
\* the fourth doubled the capacity while the contents were wrapped.
C9_Witness ==
  /\ pc = "harness" /\ Len(qin) = 4 /\ qout = qin
  /\ qbuf.capacity = 4
  /\ qbuf.elements[0] = qin[3] /\ qin[3] # qin[1]

\* C10: solve returns, having made at most 4 * (n + 2) queue calls (n + 1
\* nodes: each is enqueued once, the source twice, each with one marker, and
\* whatever is enqueued is dequeued once at most): every turn of the while
\* loop that does not return makes at least one queue call, the calls made
\* never exceed 4 * (n + 2), and a turn is never held back.
C10_TerminatesLinear ==
  /\ [](ops <= 4 * (n + 2))
  /\ [](pc = "loop" => ops < OpsCap)
  /\ [][pc = "loop" => (pc' = "done" \/ (pc' = "loop" /\ ops' > ops))]_vars

\* C10 witness: a run that ended after more than 3 * (n + 2) queue calls.
C10_Witness == Done /\ ops > 3 * (n + 2)

\* An allocation request of this solve call has failed.
AllocationFailed == failAt \in 1..allocs

\* C11: a solve call in which a queue allocation failed, the first one or the
\* one of the growth branch of an enqueue, returns IMPOSSIBLE.
C11_AllocFailureImpossible ==
  (pc = "done" /\ AllocationFailed) => result = IMPOSSIBLE

\* The half of C11 the code keeps: make_circular_buffer failing.
C11_FirstAllocFailureImpossible ==
  (pc = "done" /\ failAt \in {1, 2}) => result = IMPOSSIBLE

\* Lines 209-251 of main.c run on a whole input: the graph of the flat program.
RECURSIVE CountAirports(_, _, _)
CountAirports(deg, aps, j) ==
  IF j > Len(aps) THEN deg ELSE CountAirports(CountAirport(deg, aps[j]), aps, j + 1)

RECURSIVE CountEdges(_, _, _)
CountEdges(deg, eds, j) ==
  IF j > Len(eds) THEN deg
  ELSE CountEdges(CountEdge(deg, eds[j].from, eds[j].to), eds, j + 1)

RECURSIVE InsertEdges(_, _, _)
InsertEdges(g, eds, j) ==
  IF j > Len(eds) THEN g ELSE InsertEdges(InsertEdge(g, eds[j]), eds, j + 1)

RECURSIVE InsertAirports(_, _, _)
InsertAirports(g, aps, j) ==
  IF j > Len(aps) THEN g ELSE InsertAirports(InsertAirport(g, aps[j]), aps, j + 1)

BuiltGraph(nn, aps, eds) ==
  LET zero == [c \in 0..(nn + 1) |-> 0]
      counted == CountEdges(CountAirports(zero, aps, 1), eds, 1)
      g0 == Graph(zero, Offsets(counted),
                  [j \in 0..(2 * (Len(eds) + Len(aps))) |-> 0], nn + 1)
  IN InsertAirports(InsertEdges(g0, eds, 1), aps, 1)

\* Node c of the flat program (hub 0, cities 1..n) in the dynamic-list one
\* (cities 0..n-1, hub n), and back.
ToDyn(c) == IF c = 0 THEN n ELSE c - 1
ToFlat(c) == IF c = n THEN 0 ELSE c + 1

\* Occurrences of node v in the flat list of node u, and in the dynamic one.
FlatCount(g, u, v) ==
  Cardinality({j \in 0..(g.degrees[u] - 1) : g.neighbours[g.start[u] + j] = v})
DynCount(graph, u, v) ==
  Cardinality({j \in 1..graph.degree[u] : graph.neighbours[u][j] = v})

\* C12: on the same input the dynamic-list builder gives every city and the
\* hub the same multiset of neighbours as the flat two-pass builder, node c
\* of the one being node ToDyn(c) of the other, and the two programs report
\* the same result.
C12_BuildersAgree ==
  /\ pc = "call" =>
       \A g \in {BuiltGraph(n, airports, edges)} :
         \A u, v \in 0..n :
           /\ g.degrees[u] = dyn.degree[ToDyn(u)]
           /\ FlatCount(g, u, v) = DynCount(dyn, ToDyn(u), ToDyn(v))
  /\ pc = "done" => result = solve(BuiltGraph(n, airports, edges), s, t)

\* A journey by rail and air found by the dynamic-list program, from a city
\* whose two lists are in different orders: hub first in the one, last in the other.
C12_Witness ==
  /\ pc = "done" /\ result = 3
  /\ dyn.degree[s - 1] = 2
  /\ dyn.neighbours[s - 1][1] = n
  /\ ToFlat(dyn.neighbours[s - 1][2]) # 0

\* C13: during a solve call circular_buffer_dequeue is never invoked on an
\* empty queue: SIGSEGV is never raised and the process is never killed.
C13_NoDequeueOnEmpty == ~fault /\ pc # "killed"

\* The loop has dequeued every entry and stopped on the empty queue.
C13_Witness ==
  /\ pc = "done" /\ result = IMPOSSIBLE
  /\ queue.size = 0 /\ ops > 2

\* Railways and airport links written by pass 2 so far.
Inserted ==
  CASE pc = "pass2e" -> i
    [] pc = "pass2a" -> m + i
    [] OTHER -> m + k

\* C14: after every single insertion of a railway or an airport link, and so
\* once the graph is built, node v occurs in the list of node u as often as u
\* occurs in the list of v, and the stored degrees add up to twice the number
\* of links inserted (2 * (m + k) at the end).
C14_SymmetricLists ==
  pc \in {"pass2e", "pass2a", "call"} =>
    /\ \A u, v \in 0..n : FlatCount(G, u, v) = FlatCount(G, v, u)
    /\ SumDegrees(degrees, 0, n) = 2 * Inserted

\* Between two insertions: the same railway was written twice and one of the
\* two airports is linked.
C14_Witness ==
  /\ pc = "pass2a" /\ i = 1 /\ m = 2
  /\ edges[1] = edges[2]
  /\ FlatCount(G, edges[1].from, edges[1].to) = 2
  /\ FlatCount(G, 0, airports[1]) = 1

\* Entries of node c in the whole input: what pass 1 counts for it.
Counted(c) ==
  Cardinality({j \in 1..Len(edges) : edges[j].from = c})
  + Cardinality({j \in 1..Len(edges) : edges[j].to = c})
  + IF c = 0 THEN Len(airports)
    ELSE Cardinality({j \in 1..Len(airports) : airports[j] = c})

\* The two writes of the coming turn of pass 2, as <<node, index>>.
Writes ==
  LET at(c) == <<c, start[c] + degrees[c]>>
  IN CASE pc = "pass2e" -> {at(edges[i + 1].from), at(edges[i + 1].to)}
       [] pc = "pass2a" -> {at(0), at(airports[i + 1])}
       [] OTHER -> {}

\* A turn of pass 2: its writes land inside the slice [start[c], start[c + 1])
\* of their node c, on a slot no earlier write has used (the earlier writes
\* of a node fill its slice from start[c] up to its cursor), the two writes
\* differ, nothing else is written and each cursor moves by its writes.
SliceTurn ==
  pc \in {"pass2e", "pass2a"} =>
    /\ \A w \in Writes : start[w[1]] <= w[2] /\ w[2] < start[w[1] + 1]
    /\ \A w \in Writes : \A c \in 0..n :
         ~(start[c] <= w[2] /\ w[2] < start[c] + degrees[c])
    /\ Cardinality({w[2] : w \in Writes}) = 2
    /\ \A j \in DOMAIN neighbours :
         neighbours'[j] # neighbours[j] => j \in {w[2] : w \in Writes}
    /\ \A c \in 0..n :
         degrees'[c] = degrees[c] + Cardinality({w \in Writes : w[1] = c})

\* C15: in the two-pass builder every write of pass 2 for node c lands in
\* [start[c], start[c + 1]), no two writes land on the same index, and when
\* pass 2 ends degrees[c] is again the degree counted in pass 1: no slice
\* overflows into the next.
C15_SliceWrites ==
  /\ [][SliceTurn]_vars
  /\ [](pc = "call" =>
         \A c \in 0..n : /\ degrees[c] = Counted(c)
                          /\ degrees[c] = start[c + 1] - start[c])

\* Pass 2 has ended on a graph where one city took three writes and the hub two.
C15_Witness ==
  /\ pc = "call" /\ degrees[0] = 2
  /\ \E c \in 1..n : degrees[c] = 3 /\ start[c + 1] - start[c] = 3

\* The level markers among the entries of the queue, as positions.
MarkersIn(c) == {j \in 1..Len(c) : c[j] < 0}

\* C16 as stated: a level marker is enqueued exactly once per frontier, so no
\* two markers in the queue have the same value, and only when a city not yet
\* visited is enqueued right after it, so every marker in the queue is
\* followed by a city.
C16_MarkerOncePerFrontier ==
  pc = "loop" =>
    \A c \in {Contents(queue)} :
      /\ \A j1, j2 \in MarkersIn(c) : c[j1] = c[j2] => j1 = j2
      /\ \A j \in MarkersIn(c) : j < Len(c) /\ c[j + 1] >= 0

\* What the turn that dequeues city head (not the destination) appends.
Appended == SubSeq(Contents(queue'), queue.size, queue'.size)

\* A turn of the loop that expands a city: when the city has a neighbour,
\* one marker for distance + 1 comes first, then the neighbours not yet
\* visited, none or more; with no neighbour nothing is enqueued.
MarkerTurn ==
  (pc = "loop" /\ queue.size > 0 /\ QueueHead >= 0 /\ QueueHead # t) =>
    /\ queue'.size >= queue.size - 1
    /\ SubSeq(Contents(queue'), 1, queue.size - 1) = Tail(Contents(queue))
    /\ degrees[QueueHead] = 0 => Appended = <<>>
    /\ degrees[QueueHead] > 0 =>
         /\ Len(Appended) >= 1
         /\ Appended[1] = -(distance + 1)
         /\ \A j \in 2..Len(Appended) :
              /\ Appended[j] >= 0
              /\ ~visited[Appended[j]] /\ visited'[Appended[j]]

\* C16, amended: a level marker for distance + 1 is enqueued once for every
\* dequeued city other than the destination that has at least one neighbour,
\* before its neighbours, whether or not any of them is still to be visited.
C16_MarkerPerExpandedCity == [][MarkerTurn]_vars

\* Two cities of one frontier have each enqueued the marker of the next
\* level, and the second one enqueued no city after it.
C16_Witness ==
  /\ pc = "loop" /\ queue.size >= 3
  /\ \E c \in {Contents(queue)} :
       /\ c[Len(c)] < 0
       /\ \E j \in 1..(Len(c) - 1) : c[j] = c[Len(c)]

\* A turn of the loop enqueues no city that was enqueued before: the source
\* was, when solve was entered, and so was every city marked visited.
EnqueuedOnce ==
  (pc = "loop" /\ queue.size > 0 /\ QueueHead >= 0 /\ QueueHead # t) =>
    \A j \in 1..Len(Appended) :
      Appended[j] >= 0 => (Appended[j] # s /\ ~visited[Appended[j]])

\* C17: the source is marked visited from the start and every other city
\* when it is enqueued, so every city in the queue is marked visited, and no
\* city, the source included, is enqueued more than once.
C17_VisitedWhenEnqueued ==
  /\ [](pc = "loop" =>
         /\ visited[s]
         /\ \A c \in {Contents(queue)} :
              \A j \in 1..Len(c) : c[j] >= 0 => visited[c[j]])
  /\ [][EnqueuedOnce]_vars

\* The part of C17 about the source alone being enqueued once.
C17_SourceEnqueuedOnce ==
  [][(pc = "loop" /\ queue.size > 0 /\ QueueHead >= 0 /\ QueueHead # t) =>
       \A j \in 1..Len(Appended) : Appended[j] # s]_vars

\* The BFS level of node c: edges of a shortest path from the source to it.
Level(c) == PathLen(AugPairs, s, c)

\* A turn of the loop that dequeues a marker sets distance to the marker
\* negated, and no turn moves distance otherwise than by + 1.
DistanceTurn ==
  pc = "loop" /\ queue.size > 0 =>
    /\ QueueHead < 0 => distance' = -QueueHead
    /\ distance' = distance \/ distance' = distance + 1

\* C18: whenever solve dequeues a city, distance is 1 + the BFS level of
\* that city; a dequeued marker sets distance to its negated value; distance
\* never decreases and changes by + 1 only.
C18_DistanceTracksLevel ==
  /\ [](pc = "loop" /\ queue.size > 0 /\ QueueHead >= 0
          => distance = 1 + Level(QueueHead))
  /\ [][DistanceTurn]_vars

\* C18 for every dequeue of a city but a second dequeue of the source.
C18_ExceptSourceAgain ==
  /\ [](pc = "loop" /\ queue.size > 0 /\ QueueHead >= 0
           /\ ~(QueueHead = s /\ distance > 1)
          => distance = 1 + Level(QueueHead))
  /\ [][DistanceTurn]_vars

\* A call of circular_buffer_enqueue on a full buffer.
GrowthCall == pc = "harness" /\ Len(qin') = Len(qin) + 1 /\ qbuf.size = qbuf.capacity

\* C19 as stated: an enqueue on a full buffer doubles the capacity and copies
\* the logical contents to the new array from index 0 on, in FIFO order, so
\* that the head is at index 0; the new element comes after them.
C19_GrowthUnwraps ==
  [][GrowthCall =>
       /\ qbuf'.capacity = 2 * qbuf.capacity
       /\ qbuf'.start = 0
       /\ \A j \in 0..(qbuf.size - 1) : qbuf'.elements[j] = Contents(qbuf)[j + 1]
       /\ qbuf'.elements[qbuf.size] = qin'[Len(qin')]]_vars

\* C19, amended: an enqueue on a full buffer doubles the capacity, copies the
\* old array twice in a row into the new one and keeps start: the logical
\* contents then lie at the indices start .. start + size - 1, in FIFO order
\* and without wrapping, the head still at index start; the new element is
\* written after them, at index start + the old capacity.
C19_GrowthDuplicates ==
  [][GrowthCall =>
       /\ qbuf'.capacity = 2 * qbuf.capacity
       /\ qbuf'.start = qbuf.start
       /\ qbuf'.size = qbuf.size + 1
       /\ \A j \in 0..(qbuf.size - 1) :
            qbuf'.elements[qbuf.start + j] = Contents(qbuf)[j + 1]
       /\ qbuf'.elements[qbuf.start + qbuf.capacity] = qin'[Len(qin')]
       /\ \A j \in 0..(2 * qbuf.capacity - 1) :
            j # qbuf.start + qbuf.capacity =>
              qbuf'.elements[j] = qbuf.elements[j % qbuf.capacity]]_vars

\* A full capacity-2 buffer with its head at index 1 has just grown: the old
\* array lies twice in the new one, the fourth value over its last slot.
C19_Witness ==
  /\ pc = "harness" /\ Len(qin) = 4 /\ Len(qout) = 1
  /\ qbuf.capacity = 4 /\ qbuf.start = 1 /\ qbuf.size = 3
  /\ qbuf.elements = [j \in 0..3 |-> IF j = 1 THEN qin[2] ELSE IF j = 3 THEN qin[4] ELSE qin[3]]
  /\ qin[3] # qin[1]

\* c is DEFAULT_CAPACITY times a power of two.
RECURSIVE DefaultDoubled(_)
DefaultDoubled(c) ==
  \/ c = DEFAULT_CAPACITY
  \/ c > DEFAULT_CAPACITY /\ c % 2 = 0 /\ DefaultDoubled(c \div 2)

\* The index a call reads or writes lies inside the backing array: the slot
\* start % capacity a dequeue reads, and the slot (start + size) % capacity,
\* of the capacity after any growth, an enqueue writes, which then holds the
\* value enqueued.
IndexTurn ==
  pc = "harness" =>
    /\ qbuf'.capacity >= qbuf.capacity
    /\ Len(qout') > Len(qout) =>
         /\ qbuf.start % qbuf.capacity \in DOMAIN qbuf.elements
         /\ qout'[Len(qout')] = qbuf.elements[qbuf.start % qbuf.capacity]
    /\ Len(qin') > Len(qin) =>
         /\ (qbuf.start + qbuf.size) % qbuf'.capacity \in DOMAIN qbuf'.elements
         /\ qbuf'.elements[(qbuf.start + qbuf.size) % qbuf'.capacity] = qin'[Len(qin')]

\* C20: after any calls of enqueue and dequeue on a buffer made with capacity
\* 128 (dequeue never on an empty buffer, every allocation succeeding),
\* 0 <= start < capacity, 0 <= size <= capacity, the backing array has
\* capacity slots, capacity is 128 times a power of two and never decreases,
\* and every index read or written lies in [0, capacity).
C20_BufferInvariants ==
  /\ [](pc = "harness" =>
         /\ 0 <= qbuf.start /\ qbuf.start < qbuf.capacity
         /\ 0 <= qbuf.size /\ qbuf.size <= qbuf.capacity
         /\ DefaultDoubled(qbuf.capacity)
         /\ DOMAIN qbuf.elements = 0..(qbuf.capacity - 1))
  /\ [][IndexTurn]_vars

\* The buffer has doubled twice, the second time with its head off index 0
\* and its contents wrapped, and is full again.
C20_Witness ==
  /\ pc = "harness"
  /\ qbuf.capacity = 4 * DEFAULT_CAPACITY
  /\ qbuf.start > 0
  /\ Len(qin) > 2 * DEFAULT_CAPACITY + qbuf.start

\* The head has gone round the 128 slots and is back at index 0.
C20_StartWraps ==
  /\ pc = "harness" /\ qbuf.capacity = DEFAULT_CAPACITY
  /\ Len(qout) = DEFAULT_CAPACITY /\ qbuf.start = 0

====
